---- MODULE Spec2Model ----
(***************************************************************************)
(* State-machine model of the AI-Interviewer backend (src/server/app.py    *)
(* and its service modules).  The specifications of the module:            *)
(*   SpecSession     the speech-interview session machine                  *)
(*                   (start_speech_interview / analyze_speech_answer)      *)
(*   SpecAnalyze     the analyze-answer handler with its process-wide      *)
(*                   cache; SpecAnalyzeLive adds the wait_for timer        *)
(*   SpecQuestions   the generate-questions handler                        *)
(*   SpecStore       load_extracted_data and the interview summary         *)
(*   SpecTranscribe  the transcribe-audio endpoint and its service         *)
(*   SpecComplete    the complete-interview handler                        *)
(*   SpecGenerateSummary  generate-questions followed by the summary       *)
(*   SpecSaveLoad    save_extracted_data / load_extracted_data round trips *)
(*   SpecRelevance   the content-relevance heuristic of the fallback       *)
(***************************************************************************)
EXTENDS Integers, Sequences, FiniteSets, TLC

VARIABLES
    resume_text,      \* the resume text the handlers load ("" when the file is absent or empty)
    speech_session,   \* session id -> content of speech_session_<id>.json, or NoSession
    response,         \* the response of the last speech-interview request
    twin_response,    \* the response of the request before the last, when both were
                      \* SubmitAnswer for the same session and question id (else NoResponse)
    analysis_cache,   \* the module-level dict, as the sequence of its items in insertion order
                      \* (each with the session and answer text of the request that inserted it)
    ai_available,     \* ai_question_generator.ai_available
    analysis_store,   \* set of <<session id, question id>> with a saved analysis_<q> record
    requests,         \* request slot -> the coroutine of an analyze-answer request
    last_done,        \* the request that returned most recently (0: none yet)
    provider,         \* the outcome of the Question Provider for the generate-questions request
    gq_response,      \* the response of generate-questions (NoResponse before the request)
    s3_objects,       \* session id -> what get_object of sessions/<id>/questions.json gives
    local_files,      \* session id -> the file extracted_files/questions_<id>.json
    legacy_files,     \* the three legacy files of kind questions, in the order of the list
    store_response,   \* the result of the last Load or GetSummary request
    tr_input,         \* the upload of the transcribe-audio request and what its calls do
    tr_result,        \* the result of the transcribe-audio request (NoResponse before it)
    ci_request,       \* the complete-interview request: session id, answers, duration
    ci_response,      \* the response of complete-interview (NoResponse before the request)
    final_reports,    \* the session ids with a saved final_report record
    rel_input,        \* the answer and question given to analyze_content_relevance
    rel_result,       \* what analyze_content_relevance returned (NoResponse before the call)
    kv_s3,            \* session id -> the object sessions/<id>/questions.json of the bucket
    kv_local,         \* session id -> the file extracted_files/questions_<id>.json
    kv_response       \* the last Save or Load of the store and what it returned

sessionVars == <<resume_text, speech_session, response, twin_response>>
analyzeVars == <<analysis_cache, ai_available, analysis_store, requests, last_done>>
questionVars == <<provider, gq_response>>
storeVars == <<s3_objects, local_files, legacy_files, store_response>>
transcribeVars == <<tr_input, tr_result>>
completeVars == <<ci_request, ci_response, final_reports>>
relVars == <<rel_input, rel_result>>
kvVars == <<kv_s3, kv_local, kv_response>>
restVars == <<storeVars, transcribeVars, completeVars, relVars, kvVars>>
vars == <<sessionVars, analyzeVars, questionVars, restVars>>

----------------------------------------------------------------------------
(* Bounds of the model *)

NumSessions == 2
MaxTurns == 5

SessionIds == 1..NumSessions
\* The answer texts submitted (the placeholder analysis does not read the answer).
AnswerTexts == {"answer"}

----------------------------------------------------------------------------
(* Helpers *)

RECURSIVE SumSeq(_)
SumSeq(s) == IF s = <<>> THEN 0 ELSE Head(s) + SumSeq(Tail(s))

RECURSIVE GCD(_, _)
GCD(a, b) == IF b = 0 THEN a ELSE GCD(b, a % b)

\* An exact quotient num/den, den > 0, in lowest terms (stands for Python's sum/len).
Quot(num, den) ==
    LET g == GCD(num, den) IN
    IF g = 0 THEN [num |-> 0, den |-> 1] ELSE [num |-> num \div g, den |-> den \div g]

----------------------------------------------------------------------------
(* The speech-interview session machine *)

NoSession == [questions |-> <<>>]

\* The fixed question list of start_speech_interview.
SpeechQuestions ==
    << [id |-> 1, type |-> "technical",   difficulty |-> "baseline"],
       [id |-> 2, type |-> "behavioral",  difficulty |-> "baseline"],
       [id |-> 3, type |-> "situational", difficulty |-> "baseline"],
       [id |-> 4, type |-> "custom",      difficulty |-> "baseline"] >>

\* The placeholder analysis of analyze_speech_answer: a constant.
PlaceholderScore == 7

\* Outcomes of a Speech Synthesis call per its contract: an audio blob, or none.
SpeakOutcomes == {"audio", "none"}

\* Outcomes of the call text_to_speech(...) inside analyze_speech_answer.  The name
\* has no binding in app.py, so the call raises (NameError) inside the handler's
\* try; the other outcomes are those of a bound synthesis function.
TtsOutcomes == SpeakOutcomes \cup {"raise"}

\* Outcomes of open(path, 'w') + json.dump: written, or raising before the write.
WriteOutcomes == {"ok", "raise"}

NoResponse == [op |-> "none"]

ErrorResponse(op, s, q, status, detail, audio) ==
    [op |-> op, session_id |-> s, question_id |-> q, status |-> status,
     detail |-> detail, is_complete |-> FALSE, next_question |-> 0,
     completed |-> 0, total |-> 0, average_score |-> Quot(0, 1),
     performance_trend |-> "none", audio |-> audio]

\* except Exception as e: raise HTTPException(status_code=500, detail=str(e))
HandlerExcept(op, s, q, detail, audio) == ErrorResponse(op, s, q, 500, detail, audio)

NewSession(difficulty) ==
    [questions |-> SpeechQuestions,
     current_question_index |-> 0,
     difficulty_level |-> difficulty,
     question_history |-> <<>>,
     session_stats |-> [total_questions |-> Len(SpeechQuestions),
                        completed |-> 0,
                        average_score |-> Quot(0, 1)]]

\* if not resume_text: raise HTTPException(status_code=400, detail="No resume data found")
MissingResume_off(text) == FALSE
MissingResume(text) == text = ""

\* POST /speech-interview/start
start_speech_interview(s, wr) ==
    /\ IF MissingResume(resume_text)
       THEN /\ response' = HandlerExcept("start", s, 0, "No resume data found", "not_called")
            /\ UNCHANGED speech_session
       ELSE IF wr = "raise"
       THEN /\ response' = HandlerExcept("start", s, 0, "session write failed", "not_called")
            /\ UNCHANGED speech_session
       ELSE /\ speech_session' = [speech_session EXCEPT ![s] = NewSession("baseline")]
            /\ response' = [op |-> "start", session_id |-> s, question_id |-> 0,
                            status |-> 200, detail |-> "", is_complete |-> FALSE,
                            next_question |-> SpeechQuestions[1].id,
                            completed |-> 0, total |-> Len(SpeechQuestions),
                            average_score |-> Quot(0, 1),
                            performance_trend |-> "none", audio |-> "not_called"]
    /\ UNCHANGED resume_text

\* scores = [q['analysis']['overall_score'] for q in question_history]
Scores(history) == [i \in DOMAIN history |-> history[i].overall_score]

\* session_stats['average_score'] = sum(scores) / len(scores)
RunningAverage_stale(history) ==
    Quot(SumSeq(Scores(SubSeq(history, 1, Len(history) - 1))), Len(history) - 1)
RunningAverage(history) == Quot(SumSeq(Scores(history)), Len(history))

\* "improving" if len(scores) > 1 and scores[-1] > scores[-2] else "stable"
PerformanceTrend_ties(scores) ==
    IF Len(scores) > 1 /\ scores[Len(scores)] >= scores[Len(scores) - 1]
    THEN "improving" ELSE "stable"
PerformanceTrend(scores) ==
    IF Len(scores) > 1 /\ scores[Len(scores)] > scores[Len(scores) - 1]
    THEN "improving" ELSE "stable"

\* questions[current_index]['id']
CurrentQuestionId(sd) == sd.questions[sd.current_question_index + 1].id

\* if request.question_id != questions[current_index]['id']: raise ... mismatch
QuestionIdMismatch_off(sd, q) == FALSE
QuestionIdMismatch(sd, q) == q # CurrentQuestionId(sd)

\* The session record after the Turn is appended and the index advanced (in memory).
Advanced_unguarded(sd, q, a) ==
    LET hist == Append(sd.question_history,
                       [question_id |-> q, answer |-> a, overall_score |-> PlaceholderScore])
    IN [sd EXCEPT
          !.question_history = hist,
          !.session_stats = [@ EXCEPT !.completed = @ + 1,
                                       !.average_score = RunningAverage(hist)],
          !.current_question_index = @ + 1]
Advanced(sd, q, a) ==
    LET hist == Append(sd.question_history,
                       [question_id |-> q, answer |-> a, overall_score |-> PlaceholderScore])
        idx == sd.current_question_index
    IN [sd EXCEPT
          !.question_history = hist,
          !.session_stats = [@ EXCEPT !.completed = @ + 1,
                                       !.average_score = RunningAverage(hist)],
          !.current_question_index = IF idx + 1 < Len(sd.questions) THEN idx + 1 ELSE idx]

\* POST /speech-interview/analyze
analyze_speech_answer(s, q, a, tts, wr, awr) ==
    LET sd == speech_session[s] IN
    /\ UNCHANGED resume_text
    /\ IF sd = NoSession
       THEN /\ response' = HandlerExcept("submit", s, q, "No speech session found", "not_called")
            /\ UNCHANGED speech_session
       ELSE IF QuestionIdMismatch(sd, q)
       THEN /\ response' = HandlerExcept("submit", s, q, "Question ID mismatch", "not_called")
            /\ UNCHANGED speech_session
       ELSE
         LET idx == sd.current_question_index
             hasNext == idx + 1 < Len(sd.questions)
             new == Advanced(sd, q, a)
             audio == IF hasNext THEN tts ELSE "not_called"
         IN
         IF hasNext /\ tts = "raise"
         THEN /\ response' = HandlerExcept("submit", s, q, "text_to_speech raised", audio)
              /\ UNCHANGED speech_session
         ELSE IF wr = "raise"
         THEN /\ response' = HandlerExcept("submit", s, q, "session write failed", audio)
              /\ UNCHANGED speech_session
         ELSE
              /\ speech_session' = [speech_session EXCEPT ![s] = new]
              /\ IF awr = "raise"
                 THEN response' = HandlerExcept("submit", s, q, "analysis write failed", audio)
                 ELSE response' =
                           [op |-> "submit", session_id |-> s, question_id |-> q,
                            status |-> 200, detail |-> "",
                            is_complete |-> ~hasNext,
                            next_question |-> IF hasNext THEN sd.questions[idx + 2].id ELSE 0,
                            completed |-> new.session_stats.completed,
                            total |-> new.session_stats.total_questions,
                            average_score |-> new.session_stats.average_score,
                            performance_trend |-> PerformanceTrend(Scores(new.question_history)),
                            audio |-> audio]

Start ==
    \E s \in SessionIds, wr \in WriteOutcomes :
        /\ start_speech_interview(s, wr)
        /\ twin_response' = NoResponse
        /\ UNCHANGED <<analyzeVars, questionVars, restVars>>

\* What the calls of one request do, each call counted only if the handler gets to
\* it: the session write comes after the audio call, the analysis write after the
\* session write.
SubmitOutcomes ==
    {o \in [tts : TtsOutcomes, wr : WriteOutcomes, awr : WriteOutcomes] :
        /\ o.tts = "raise" => o.wr = "ok"
        /\ o.wr = "raise" => o.awr = "ok"}

SubmitAnswer ==
    \E s \in SessionIds, q \in 1..Len(SpeechQuestions), a \in AnswerTexts, o \in SubmitOutcomes :
        /\ speech_session[s] # NoSession => Len(speech_session[s].question_history) < MaxTurns
        /\ analyze_speech_answer(s, q, a, o.tts, o.wr, o.awr)
        /\ twin_response' = IF /\ response.op = "submit"
                               /\ response.session_id = s
                               /\ response.question_id = q
                            THEN response ELSE NoResponse
        /\ UNCHANGED <<analyzeVars, questionVars, restVars>>

\* The file extracted_files/extracted_resume_text.json, which the handlers read and
\* never write, is put in place, emptied or removed between two requests.
ReplaceResumeFile ==
    /\ resume_text' \in {"", "resume"} \ {resume_text}
    /\ UNCHANGED <<speech_session, response, twin_response, analyzeVars, questionVars, restVars>>

----------------------------------------------------------------------------
(* The analyze-answer handler and the process-wide analysis cache *)

MAX_CACHE_SIZE == 100
ShortAnswerChars == 5
NumRequests == 2

RequestIds == 1..NumRequests

\* Answer texts of the requests, with what the handler reads of them:
\*   norm     answer.lower().strip()           chars  len(answer.strip())
\*   words    len(answer.split())              uncertainty  phrases of the list found
\*   fillers  words that are filler words      keywords  a domain word occurs
AnswerInputs ==
    [ short  |-> [norm |-> "ok", chars |-> 2, words |-> 1, uncertainty |-> 0,
                  fillers |-> 0, keywords |-> FALSE],
      plain  |-> [norm |-> "i led the team project and delivered the result on time",
                  chars |-> 55, words |-> 11, uncertainty |-> 0,
                  fillers |-> 0, keywords |-> TRUE],
      padded |-> [norm |-> "i led the team project and delivered the result on time",
                  chars |-> 55, words |-> 11, uncertainty |-> 0,
                  fillers |-> 0, keywords |-> TRUE],
      hedged |-> [norm |-> "um maybe i think probably it works i guess",
                  chars |-> 42, words |-> 9, uncertainty |-> 4,
                  fillers |-> 1, keywords |-> FALSE] ]

\* The requests of the model: (session_id, question_id, answer).
AnalyzeInputs ==
    { [session_id |-> 1, question_id |-> 1, answer |-> "short"],
      [session_id |-> 1, question_id |-> 1, answer |-> "plain"],
      [session_id |-> 2, question_id |-> 1, answer |-> "padded"],
      [session_id |-> 1, question_id |-> 2, answer |-> "hedged"] }

\* current_question_text: q['question'] of the entry with id q in the questions
\* stored for session s.  Each session has its own list (the questions are made
\* from that session's resume), so an id names one text per session.
QuestionText(s, q) == <<"question", s, q>>

\* hashlib.md5(answer.lower().strip().encode()).hexdigest()[:12]: a function of the
\* normalized text (distinct normalized texts of the model have distinct digests).
AnswerHash_raw(a) == <<"md5", a>>
AnswerHash(a) == <<"md5", AnswerInputs[a].norm>>

\* cache_key = f"{request.question_id}_{answer_hash}"
CacheKey(q, a) == <<q, AnswerHash(a)>>

CacheKeys(cache) == {cache[i].key : i \in DOMAIN cache}
CacheGet(cache, k) == (CHOOSE i \in DOMAIN cache : cache[i].key = k)

\* if len(analysis_cache) >= MAX_CACHE_SIZE: evict the oldest entry
CacheIsFull_gt(cache) == Len(cache) > MAX_CACHE_SIZE
CacheIsFull(cache) == Len(cache) >= MAX_CACHE_SIZE

\* del analysis_cache[next(iter(analysis_cache))]; analysis_cache[cache_key] = analysis
CacheInsert(cache, entry) ==
    LET c == IF CacheIsFull(cache) THEN Tail(cache) ELSE cache IN
    IF entry.key \in CacheKeys(c)
    THEN [c EXCEPT ![CacheGet(c, entry.key)] = entry]
    ELSE Append(c, entry)

Min(a, b) == IF a < b THEN a ELSE b
Max(a, b) == IF a > b THEN a ELSE b
Take3(s) == SubSeq(s, 1, Min(3, Len(s)))

Analysis(score, strengths, improvements) ==
    [status |-> 200, score |-> score, strengths |-> strengths, improvements |-> improvements]

\* if len(request.answer.strip()) < 5
IsShortAnswer_never(a) == FALSE
IsShortAnswer(a) == AnswerInputs[a].chars < ShortAnswerChars

\* The pre-check result for answers of fewer than 5 stripped characters.
ShortAnalysis ==
    Analysis(2, <<"Attempted to answer">>,
             <<"Provide more detailed response", "Elaborate on your thoughts">>)

\* The emergency fallback of the handler's outer except.
EmergencyAnalysis == Analysis(6, <<"Provided response">>, <<"Keep practicing">>)

\* What the outer "except Exception" of analyze_interview_answer returns.
AnalyzeExcept_reraise == [status |-> 500, score |-> 0, strengths |-> <<>>, improvements |-> <<>>]
AnalyzeExcept == EmergencyAnalysis

\* "score": min(10, max(0, analysis['score']))
ClampScore_none(score) == score
ClampScore(score) == Min(10, Max(0, score))

\* simple_fallback_analysis(answer_text)
simple_fallback_analysis(a) ==
    LET f == AnswerInputs[a]
        s0 == 7
        s1 == IF f.words < 10 THEN s0 - 2 ELSE IF f.words > 40 THEN s0 + 1 ELSE s0
        s2 == IF f.uncertainty > 2 THEN s1 - 1 ELSE s1
        s3 == IF 10 * f.fillers > f.words THEN s2 - 1 ELSE s2
        score == Max(3, Min(10, s3))
        st == (IF f.words >= 25 THEN <<"Provided comprehensive response">> ELSE <<>>)
              \o (IF f.uncertainty <= 1 THEN <<"Confident delivery">> ELSE <<>>)
              \o (IF f.keywords THEN <<"Relevant examples mentioned">> ELSE <<>>)
        im == (IF f.words < 20 THEN <<"Add more specific details">> ELSE <<>>)
              \o (IF f.uncertainty > 1 THEN <<"Show more confidence">> ELSE <<>>)
              \o (IF f.fillers > 3 THEN <<"Reduce hesitation words">> ELSE <<>>)
    IN Analysis(score,
                Take3(IF st = <<>> THEN <<"Engaged with the question">> ELSE st),
                Take3(IF im = <<>> THEN <<"Keep practicing">> ELSE im))

\* What the awaited cloud call can do: time out, raise (the client call, or the
\* validation of a field of the wrong type), answer with text that holds no JSON
\* object, with an object lacking a required field, or with a well-formed object
\* carrying any score.
CloudScores == {-1, 7, 11}
CloudOutcomes ==
    [kind : {"timeout", "raise", "unparseable", "missing_field"}, score : {0}]
    \cup [kind : {"ok"}, score : CloudScores]

CloudStrengths == <<"s1", "s2", "s3", "s4">>
CloudImprovements == <<"i1">>

\* analyze_with_bedrock after the await: the validated analysis, or an exception.
analyze_with_bedrock_lenient(cloud) ==
    IF cloud.kind \in {"ok", "missing_field"}
    THEN [raised |-> FALSE,
          analysis |-> Analysis(ClampScore(cloud.score), Take3(CloudStrengths),
                                Take3(CloudImprovements))]
    ELSE [raised |-> TRUE, analysis |-> EmergencyAnalysis]
analyze_with_bedrock(cloud) ==
    IF cloud.kind = "ok"
    THEN [raised |-> FALSE,
          analysis |-> Analysis(ClampScore(cloud.score), Take3(CloudStrengths),
                                Take3(CloudImprovements))]
    ELSE [raised |-> TRUE, analysis |-> EmergencyAnalysis]

\* Outcomes of load_extracted_data(session_id, "questions") as the handler uses it:
\* a list of questions (its text goes into the prompt), an empty mapping, or data
\* whose iteration raises (entries that are not question records).
LoadOutcomes == {"list", "empty", "malformed"}

NoResult == [status |-> 0, score |-> 0, strengths |-> <<>>, improvements |-> <<>>]

IdleRequest ==
    [pc |-> "new", session_id |-> 0, question_id |-> 0, answer |-> "short",
     path |-> "none", cloud_called |-> FALSE, cloud_kind |-> "none",
     cloud_score |-> 0, result |-> NoResult]

\* The outcome of the cloud call when asyncio.wait_for gives up after timeout=3.0.
TimeoutOutcome == [kind |-> "timeout", score |-> 0]

\* asyncio.wait_for(..., timeout=3.0): the wait of a suspended request is bounded, the
\* timer ends it whether or not the cloud service answers.
AwaitTimeout_none(req) == FALSE
AwaitTimeout(req) == req.pc = "awaiting"

\* Lines 569-590: insert into the cache, save the analysis record, return.
Finish(r, req, analysis, path, sv) ==
    /\ analysis_cache' =
           CacheInsert(analysis_cache,
                       [key |-> CacheKey(req.question_id, req.answer),
                        value |-> analysis,
                        session_id |-> req.session_id,
                        answer |-> req.answer])
    /\ analysis_store' = IF sv = "ok"
                         THEN analysis_store \cup {<<req.session_id, req.question_id>>}
                         ELSE analysis_store
    /\ requests' = [requests EXCEPT ![r] =
                       [req EXCEPT !.pc = "done", !.path = path, !.result = analysis]]
    /\ last_done' = r

\* POST /analyze-answer, from the start of the handler to its first suspension
\* (the await of the cloud call) or to its return.
AnalyzeBegin(r, in, load, sv) ==
    LET key == CacheKey(in.question_id, in.answer)
        req == [IdleRequest EXCEPT !.session_id = in.session_id,
                                   !.question_id = in.question_id,
                                   !.answer = in.answer]
    IN
    /\ requests[r].pc = "new"
    /\ r > 1 => requests[r - 1].pc # "new"
    /\ UNCHANGED ai_available
    /\ IF key \in CacheKeys(analysis_cache)
       THEN /\ requests' = [requests EXCEPT ![r] =
                   [req EXCEPT !.pc = "done", !.path = "cache",
                               !.result = analysis_cache[CacheGet(analysis_cache, key)].value]]
            /\ last_done' = r
            /\ UNCHANGED <<analysis_cache, analysis_store>>
       ELSE IF load = "malformed"
       THEN /\ requests' = [requests EXCEPT ![r] =
                   [req EXCEPT !.pc = "done", !.path = "emergency", !.result = AnalyzeExcept]]
            /\ last_done' = r
            /\ UNCHANGED <<analysis_cache, analysis_store>>
       ELSE IF IsShortAnswer(in.answer)
       THEN Finish(r, req, ShortAnalysis, "short", sv)
       ELSE IF ~ai_available
       THEN Finish(r, [req EXCEPT !.cloud_kind = "unavailable"],
                   simple_fallback_analysis(in.answer), "fallback", sv)
       ELSE /\ requests' = [requests EXCEPT ![r] =
                   [req EXCEPT !.pc = "awaiting", !.cloud_called = TRUE]]
            /\ UNCHANGED <<analysis_cache, analysis_store, last_done>>

\* The handler resumed after the awaited cloud call, to its return.
AnalyzeResume(r, cloud, sv) ==
    LET req == requests[r]
        res == analyze_with_bedrock(cloud)
    IN
    /\ req.pc = "awaiting"
    /\ cloud.kind = "timeout" => AwaitTimeout(req)
    /\ UNCHANGED ai_available
    /\ IF res.raised
       THEN Finish(r, [req EXCEPT !.cloud_kind = cloud.kind],
                   simple_fallback_analysis(req.answer), "fallback", sv)
       ELSE Finish(r, [req EXCEPT !.cloud_kind = cloud.kind, !.cloud_score = cloud.score],
                   res.analysis, "cloud", sv)

Begin ==
    \E r \in RequestIds, in \in AnalyzeInputs, load \in LoadOutcomes, sv \in WriteOutcomes :
        /\ AnalyzeBegin(r, in, load, sv)
        /\ UNCHANGED <<sessionVars, questionVars, restVars>>

Resume ==
    \E r \in RequestIds, cloud \in CloudOutcomes, sv \in WriteOutcomes :
        /\ AnalyzeResume(r, cloud, sv)
        /\ UNCHANGED <<sessionVars, questionVars, restVars>>

\* The timer of request r's cloud wait fires: the part of Resume that the event loop
\* guarantees to happen while the request is suspended.
CloudWaitTimesOut(r) ==
    \E sv \in WriteOutcomes :
        /\ AnalyzeResume(r, TimeoutOutcome, sv)
        /\ UNCHANGED <<sessionVars, questionVars, restVars>>

\* A cache filled by n earlier short-answer requests for question ids 1001..1000+n.
FillerQuestionId == 1000
PrefilledCache(n) ==
    [i \in 1..n |-> [key |-> <<FillerQuestionId + i, AnswerHash("short")>>,
                     value |-> ShortAnalysis,
                     session_id |-> 1,
                     answer |-> "short"]]

NextAnalyze == Begin \/ Resume

----------------------------------------------------------------------------
(* The generate-questions handler *)

MaxAiQuestions == 3
MaxGeneratedQuestions == 8

\* A question as the handlers read it: id, type and the is_scored key ("missing" when
\* the record has no such key).
Question(id, type, scored) == [id |-> id, type |-> type, is_scored |-> scored]

AiTypes == {"introduction", "technical", "behavioral"}

RECURSIVE SeqsUpTo(_, _)
SeqsUpTo(S, n) ==
    IF n = 0 THEN {<<>>}
    ELSE LET shorter == SeqsUpTo(S, n - 1)
         IN shorter \cup {Append(q, x) : q \in {p \in shorter : Len(p) = n - 1}, x \in S}

\* get_fallback_questions() of app.py
get_fallback_questions ==
    << Question(1, "introduction", "False"), Question(2, "technical", "True"),
       Question(3, "behavioral", "True"),    Question(4, "behavioral", "True"),
       Question(5, "technical", "True"),     Question(6, "behavioral", "True") >>

\* AIQuestionGenerator._generate_with_bedrock: the parsed items, at most 8, numbered
\* from 1, each with its lower-cased type and no is_scored key.
FormatAiQuestions(types) ==
    [i \in 1..Min(Len(types), MaxGeneratedQuestions) |-> Question(i, types[i], "missing")]

\* AIQuestionGenerator._generate_fallback_questions: four base questions, one technical
\* question per technology family found in the resume (ids 5..8), two behavioral ones.
TechFamilies == {{}, {6}, {5, 6, 7, 8}}
RECURSIVE TechQuestions(_, _)
TechQuestions(found, id) ==
    IF id > 8 THEN <<>>
    ELSE (IF id \in found THEN <<Question(id, "technical", "missing")>> ELSE <<>>)
         \o TechQuestions(found, id + 1)
GeneratorFallback(found) ==
    LET base == << Question(1, "general", "missing"), Question(2, "behavioral", "missing"),
                   Question(3, "general", "missing"), Question(4, "behavioral", "missing") >>
        tech == TechQuestions(found, 5)
        n == Len(base) + Len(tech)
        all == base \o tech \o << Question(n + 1, "behavioral", "missing"),
                                  Question(n + 2, "behavioral", "missing") >>
    IN SubSeq(all, 1, Min(Len(all), MaxGeneratedQuestions))

\* What ai_question_generator.generate_questions does for the handler.
ProviderOutcomes ==
    [kind : {"exception"}, types : {<<>>}, found : {{}}]
    \cup [kind : {"ai"}, types : SeqsUpTo(AiTypes, MaxAiQuestions), found : {{}}]
    \cup [kind : {"fallback"}, types : {<<>>}, found : TechFamilies]

ProvidedQuestions(p) ==
    IF p.kind = "exception" THEN get_fallback_questions
    ELSE IF p.kind = "ai" THEN FormatAiQuestions(p.types)
    ELSE GeneratorFallback(p.found)

IntroQuestion == Question(1, "introduction", "False")

\* "Ensure we have the introduction question first"
EnsureIntroduction(questions) ==
    IF questions = <<>> \/ questions[1].type # "introduction"
    THEN IF questions # <<>>
         THEN <<IntroQuestion>> \o [i \in DOMAIN questions |-> [questions[i] EXCEPT !.id = i + 1]]
         ELSE <<IntroQuestion>> \o Tail(get_fallback_questions)
    ELSE questions

\* POST /generate-questions
generate_questions(resume, p) ==
    IF resume = ""
    THEN [status |-> 500, detail |-> "No resume data found", questions |-> <<>>]
    ELSE [status |-> 200, detail |-> "Questions ready",
          questions |-> EnsureIntroduction(ProvidedQuestions(p))]

GenerateQuestions ==
    /\ gq_response = NoResponse
    /\ gq_response' = generate_questions(resume_text, provider)
    /\ UNCHANGED <<sessionVars, analyzeVars, provider, restVars>>

NextQuestions == GenerateQuestions

NextSession == Start \/ SubmitAnswer \/ ReplaceResumeFile

----------------------------------------------------------------------------
(* The session store (s3_storage.py) for the kind "questions", and the summary *)

\* What a source holds for a key: nothing that can be read (no client, no object, an
\* empty body, a failing download, no file), text that is not JSON, JSON of an empty
\* value, or JSON of a question list.
S3Kinds == {"unavailable", "corrupt", "empty", "data"}
FileKinds == {"absent", "corrupt", "data"}
Parseable == {"empty", "data"}

\* legacy_paths of load_extracted_data
NumLegacyPaths == 3

\* A loaded value with the source it came from; "return {}" when no source yields one.
Loaded(kind, origin) == [kind |-> kind, origin |-> origin]
EmptyMapping == Loaded("empty", <<"none", 0>>)

\* for path in legacy_paths: the first file that exists and parses
RECURSIVE LoadLegacy(_)
LoadLegacy(i) ==
    IF i > NumLegacyPaths THEN EmptyMapping
    ELSE IF legacy_files[i] \in Parseable THEN Loaded(legacy_files[i], <<"legacy", i>>)
    ELSE LoadLegacy(i + 1)

\* load_extracted_data(session_id, "questions")
load_extracted_data_local_first(s) ==
    IF local_files[s] \in Parseable THEN Loaded(local_files[s], <<"local", s>>)
    ELSE IF s3_objects[s] \in Parseable THEN Loaded(s3_objects[s], <<"s3", s>>)
    ELSE LoadLegacy(1)
load_extracted_data(s) ==
    IF s3_objects[s] \in Parseable THEN Loaded(s3_objects[s], <<"s3", s>>)
    ELSE IF local_files[s] \in Parseable THEN Loaded(local_files[s], <<"local", s>>)
    ELSE LoadLegacy(1)

\* The question list a "data" source holds (the ids and types are all the summary reads).
StoredQuestions == get_fallback_questions

\* if not questions: raise HTTPException(status_code=404, detail="No interview data found")
NoQuestions(loaded) == loaded.kind = "empty"

\* GET /interview-summary/{session_id}
get_interview_summary(s) ==
    LET loaded == load_extracted_data(s) IN
    IF NoQuestions(loaded)
    THEN [op |-> "summary", session_id |-> s, status |-> 500,
          detail |-> "No interview data found", value |-> EmptyMapping,
          total_questions |-> 0, answered_questions |-> 0]
    ELSE [op |-> "summary", session_id |-> s, status |-> 200, detail |-> "",
          value |-> loaded,
          total_questions |-> IF loaded.kind = "data" THEN Len(StoredQuestions) ELSE 0,
          answered_questions |->
              Cardinality({i \in DOMAIN StoredQuestions :
                              <<s, StoredQuestions[i].id>> \in analysis_store})]

\* A call of load_extracted_data(session_id, "questions") by a handler.
Load ==
    \E s \in SessionIds :
        /\ store_response' = [op |-> "load", session_id |-> s, status |-> 200, detail |-> "",
                              value |-> load_extracted_data(s),
                              total_questions |-> 0, answered_questions |-> 0]
        /\ UNCHANGED <<s3_objects, local_files, legacy_files>>
        /\ UNCHANGED <<sessionVars, analyzeVars, questionVars, transcribeVars, completeVars,
                       relVars, kvVars>>

GetSummary ==
    \E s \in SessionIds :
        /\ store_response' = get_interview_summary(s)
        /\ UNCHANGED <<s3_objects, local_files, legacy_files>>
        /\ UNCHANGED <<sessionVars, analyzeVars, questionVars, transcribeVars, completeVars,
                       relVars, kvVars>>

NextStore == Load \/ GetSummary

\* request.session_id of the generate-questions request of the model
GeneratedSessionId == 1

\* An interview from its questions to its summary: generate-questions, then GetSummary.
NextGenerateSummary == GenerateQuestions \/ GetSummary

----------------------------------------------------------------------------
(* save_extracted_data and load_extracted_data on the values of one kind *)

\* The JSON values saved under a key.
JsonValues == {"v1", "v2"}

\* No object in the bucket, no local file: there is no text to read.
NoText == <<>>

\* json.dumps(content) and json.loads(text) on these values
JsonDump(v) == <<"json", v>>
JsonParse(text) == text[2]

\* What the bucket does during one call: put_object / get_object succeeds, or the
\* client is missing or the call raises.
S3Outcomes == {"ok", "failed"}

\* upload_to_s3(json.dumps(content), s3_key): True when the object was put
upload_to_s3(s, text, up) ==
    IF up = "ok" THEN [kv_s3 EXCEPT ![s] = text] ELSE kv_s3

\* download_from_s3(s3_key): the content, or None
download_from_s3(s, down) ==
    IF down = "ok" /\ kv_s3[s] # NoText THEN kv_s3[s] ELSE NoText

\* What Load returns when neither the bucket nor the local file gives a value: the
\* first parseable legacy file, else the empty mapping.
LegacyValue == IF LoadLegacy(1).kind = "data" THEN "legacy" ELSE "empty"

KvResponse(op, s, status, value) ==
    [op |-> op, session_id |-> s, status |-> status, value |-> value]

\* save_extracted_data(session_id, data_type, content): the local file first, then
\* the upload, whose failure is not reported.
save_extracted_data(s, v, wr, up) ==
    IF wr = "raise"
    THEN /\ kv_response' = KvResponse("save", s, "raised", v)
         /\ UNCHANGED <<kv_s3, kv_local>>
    ELSE /\ kv_local' = [kv_local EXCEPT ![s] = JsonDump(v)]
         /\ kv_s3' = upload_to_s3(s, JsonDump(v), up)
         /\ kv_response' = KvResponse("save", s, "returned", v)

\* load_extracted_data(session_id, data_type): the bucket, the local file, the legacy
\* files, else {}.
load_extracted_value(s, down) ==
    LET s3_content == download_from_s3(s, down) IN
    IF s3_content # NoText THEN JsonParse(s3_content)
    ELSE IF kv_local[s] # NoText THEN JsonParse(kv_local[s])
    ELSE LegacyValue

SaveData ==
    \E s \in SessionIds, v \in JsonValues, wr \in WriteOutcomes, up \in S3Outcomes :
        /\ save_extracted_data(s, v, wr, up)
        /\ UNCHANGED <<sessionVars, analyzeVars, questionVars, storeVars, transcribeVars,
                       completeVars, relVars>>

LoadData ==
    \E s \in SessionIds, down \in S3Outcomes :
        /\ kv_response' = KvResponse("load", s, "returned", load_extracted_value(s, down))
        /\ UNCHANGED <<kv_s3, kv_local>>
        /\ UNCHANGED <<sessionVars, analyzeVars, questionVars, storeVars, transcribeVars,
                       completeVars, relVars>>

NextSaveLoad == SaveData \/ LoadData

----------------------------------------------------------------------------
(* The transcribe-audio endpoint and TranscribeService.transcribe_audio *)

\* if file_size < 1000 / if file_size > 10 * 1024 * 1024
MinAudioBytes == 1000
MaxAudioBytes == 10485760

\* max_wait_time = 30, time.sleep(2); wait_time += 2
MaxWaitSeconds == 30
PollSeconds == 2

\* The polls (1-based) at which the job of the model first reports a final status.
JobReadyPolls == {1, MaxWaitSeconds \div PollSeconds, (MaxWaitSeconds \div PollSeconds) + 1}

\* What the transcription job does: the start or a poll raises, or the job reports
\* IN_PROGRESS until poll ready_at and then its final status.
JobOutcomes ==
    [kind : {"raise"}, final : {"COMPLETED"}, ready_at : {1}]
    \cup [kind : {"runs"}, final : {"COMPLETED", "FAILED"}, ready_at : JobReadyPolls]

\* The request and the behaviour of what it calls:
\*   filename   the upload has an accepted extension, another one, or no filename
\*   save       reading the upload and writing the temporary file
\*   file_size  os.path.getsize of the temporary file
\*   available  transcribe_service.available
\*   upload     _upload_audio_to_s3 returns the URI, or None
TranscribeInputs ==
    [filename : {"accepted", "other", "none"},
     save : WriteOutcomes,
     file_size : {MinAudioBytes - 1, MinAudioBytes, MaxAudioBytes, MaxAudioBytes + 1},
     available : BOOLEAN,
     upload : {"ok", "failed"},
     job : JobOutcomes]

TranscribeResult(status, confidence_tenths) ==
    [op |-> "transcribe", status |-> status, confidence_tenths |-> confidence_tenths]

\* while wait_time < max_wait_time: poll; COMPLETED / FAILED return; sleep; wait_time += 2
RECURSIVE WaitForJob(_, _, _)
WaitForJob(job, wait_time, polls) ==
    IF wait_time >= MaxWaitSeconds THEN TranscribeResult("timeout", 0)
    ELSE IF polls + 1 >= job.ready_at
    THEN IF job.final = "COMPLETED"
         THEN TranscribeResult("success", 9)
         ELSE TranscribeResult("transcription_failed", 0)
    ELSE WaitForJob(job, wait_time + PollSeconds, polls + 1)

\* TranscribeService.transcribe_audio(audio_file_path, session_id)
service_transcribe_audio(in) ==
    IF ~in.available THEN TranscribeResult("service_unavailable", 0)
    ELSE IF in.upload = "failed" THEN TranscribeResult("upload_failed", 0)
    ELSE IF in.job.kind = "raise" THEN TranscribeResult("error", 0)
    ELSE WaitForJob(in.job, 0, 0)

\* POST /transcribe-audio
transcribe_audio(in) ==
    IF in.filename = "none" THEN TranscribeResult("error", 0)
    ELSE IF in.filename = "other" THEN TranscribeResult("invalid_format", 0)
    ELSE IF in.save = "raise" THEN TranscribeResult("error", 0)
    ELSE IF in.file_size < MinAudioBytes THEN TranscribeResult("short_audio", 0)
    ELSE IF in.file_size > MaxAudioBytes THEN TranscribeResult("file_too_large", 0)
    ELSE service_transcribe_audio(in)

Transcribe ==
    /\ tr_result = NoResponse
    /\ tr_result' = transcribe_audio(tr_input)
    /\ UNCHANGED <<tr_input, sessionVars, analyzeVars, questionVars, storeVars, completeVars,
                   relVars, kvVars>>

NextTranscribe == Transcribe

----------------------------------------------------------------------------
(* The complete-interview handler *)

MaxAnswers == 3

\* The answers of a request, with what the handler reads of each:
\*   words     len(answer['answer'].split())
\*   skill     the text holds 'experience', 'project' or 'team'
\*   outcome   the text holds 'result', 'outcome' or 'success'
\*   team      the text holds 'team'       result   it holds 'result' or 'outcome'
CompleteAnswers ==
    [ brief |-> [words |-> 8,   skill |-> FALSE, outcome |-> FALSE, team |-> FALSE, result |-> FALSE],
      solid |-> [words |-> 60,  skill |-> TRUE,  outcome |-> FALSE, team |-> TRUE,  result |-> FALSE],
      full  |-> [words |-> 120, skill |-> TRUE,  outcome |-> TRUE,  team |-> TRUE,  result |-> TRUE],
      lucky |-> [words |-> 30,  skill |-> FALSE, outcome |-> TRUE,  team |-> FALSE, result |-> FALSE] ]

\* An answer record without the key 'answer': answer['answer'] raises KeyError.
MalformedAnswer == "no_text"

CompleteRequests ==
    [session_id : SessionIds,
     answers : SeqsUpTo(DOMAIN CompleteAnswers \cup {MalformedAnswer}, MaxAnswers)]

\* score = 5; +1 over 50 words; +1 over 100 words; +1 per keyword group; min(score, 10)
AnswerScore(a) ==
    LET f == CompleteAnswers[a] IN
    Min(5 + (IF f.words > 50 THEN 1 ELSE 0) + (IF f.words > 100 THEN 1 ELSE 0)
          + (IF f.skill THEN 1 ELSE 0) + (IF f.outcome THEN 1 ELSE 0),
        10)

\* round(x, 1) of x = num / den, in tenths (ties go to the even tenth).
RoundTenths(num, den) ==
    LET q == (10 * num) \div den
        r == (10 * num) % den
    IN IF 2 * r < den THEN q
       ELSE IF 2 * r > den THEN q + 1
       ELSE IF q % 2 = 0 THEN q ELSE q + 1

\* overall_score = sum(scores) / len(scores) if scores else 5
DefaultOverall_zero == [num |-> 0, den |-> 1]
DefaultOverall == [num |-> 5, den |-> 1]
OverallScore(scores) ==
    IF scores # <<>> THEN [num |-> SumSeq(scores), den |-> Len(scores)] ELSE DefaultOverall

\* The report of complete_interview for the answers of a request.
Report(answers) ==
    LET n == Len(answers)
        words == SumSeq([i \in DOMAIN answers |-> CompleteAnswers[answers[i]].words])
        scores == [i \in DOMAIN answers |-> AnswerScore(answers[i])]
        overall == OverallScore(scores)
        \* avg_words_per_answer compared with a threshold c (0 when there is no answer)
        avgOver(c) == n > 0 /\ words > c * n
        avgUnder(c) == n = 0 \/ words < c * n
        anyTeam == \E i \in DOMAIN answers : CompleteAnswers[answers[i]].team
        anyResult == \E i \in DOMAIN answers : CompleteAnswers[answers[i]].result
        st == (IF avgOver(75) THEN <<"Provides comprehensive and detailed responses">>
               ELSE IF avgOver(40) THEN <<"Clear and concise communication style">>
               ELSE <<>>)
              \o (IF overall.num >= 7 * overall.den
                  THEN <<"Strong technical knowledge and experience">> ELSE <<>>)
              \o (IF anyTeam THEN <<"Good collaboration and teamwork skills">> ELSE <<>>)
        im == (IF avgUnder(40)
               THEN <<"Consider providing more detailed examples and explanations">>
               ELSE <<>>)
              \o (IF overall.num < 6 * overall.den
                  THEN <<"Focus on demonstrating specific technical skills and achievements">>
                  ELSE <<>>)
              \o (IF ~anyResult
                  THEN <<"Include more results-oriented examples in your responses">>
                  ELSE <<>>)
    IN [op |-> "complete", status |-> 200,
        overall_score_tenths |-> RoundTenths(overall.num, overall.den),
        total_questions |-> n,
        total_words |-> words,
        strengths |-> IF st = <<>>
                      THEN <<"Completed the full interview with consistent engagement">>
                      ELSE st,
        improvements |-> IF im = <<>>
                         THEN <<"Continue practicing to refine your interview responses">>
                         ELSE im,
        detailed_scores |-> scores]

\* POST /complete-interview: the report is returned whether or not saving it succeeded.
complete_interview(req, sv) ==
    IF \E i \in DOMAIN req.answers : req.answers[i] = MalformedAnswer
    THEN /\ ci_response' = [op |-> "complete", status |-> 500,
                             overall_score_tenths |-> 0, total_questions |-> 0,
                             total_words |-> 0, strengths |-> <<>>, improvements |-> <<>>,
                             detailed_scores |-> <<>>]
         /\ UNCHANGED final_reports
    ELSE /\ ci_response' = Report(req.answers)
         /\ final_reports' = IF sv = "ok" THEN final_reports \cup {req.session_id}
                             ELSE final_reports

CompleteInterview ==
    \E sv \in WriteOutcomes :
        /\ ci_response = NoResponse
        /\ complete_interview(ci_request, sv)
        /\ UNCHANGED <<ci_request, sessionVars, analyzeVars, questionVars, storeVars,
                       transcribeVars, relVars, kvVars>>

NextComplete == CompleteInterview

----------------------------------------------------------------------------
(* The content-relevance heuristic: analyze_content_relevance and what it calls.
   A text is the sequence of its characters, a split text the sequence of its words. *)

MaxAnswerWords == 2
RelevantWordCount == 30
LongRepeat == RelevantWordCount + 1

\* str.lower() on the letters of the model's texts
ToLower ==
    ("A" :> "a") @@ ("B" :> "b") @@ ("C" :> "c") @@ ("D" :> "d") @@ ("E" :> "e") @@ ("F" :> "f")
    @@ ("G" :> "g") @@ ("H" :> "h") @@ ("I" :> "i") @@ ("J" :> "j") @@ ("K" :> "k") @@ ("L" :> "l")
    @@ ("M" :> "m") @@ ("N" :> "n") @@ ("O" :> "o") @@ ("P" :> "p") @@ ("Q" :> "q") @@ ("R" :> "r")
    @@ ("S" :> "s") @@ ("T" :> "t") @@ ("U" :> "u") @@ ("V" :> "v") @@ ("W" :> "w") @@ ("X" :> "x")
    @@ ("Y" :> "y") @@ ("Z" :> "z")
LowerChar(c) == IF c \in DOMAIN ToLower THEN ToLower[c] ELSE c
LowerText(t) == [i \in DOMAIN t |-> LowerChar(t[i])]

\* str.isalpha() of one character
IsAlpha(c) == c \in DOMAIN ToLower \/ c \in {ToLower[u] : u \in DOMAIN ToLower}

\* The string whose split() is ws: the words with one blank between them.
RECURSIVE JoinWords(_)
JoinWords(ws) ==
    IF ws = <<>> THEN <<>>
    ELSE IF Len(ws) = 1 THEN ws[1]
    ELSE ws[1] \o <<" ">> \o JoinWords(Tail(ws))

RECURSIVE Repeat(_, _)
Repeat(ws, n) == IF n = 0 THEN <<>> ELSE ws \o Repeat(ws, n - 1)

\* pat in text
Contains(text, pat) ==
    \E i \in 1..(Len(text) - Len(pat) + 1) : SubSeq(text, i, i + Len(pat) - 1) = pat
\* any(p in text for p in pats)
ContainsAny(text, pats) == \E p \in pats : Contains(text, p)

\* word.strip('.,!?')
StripChars == {".", ",", "!", "?"}
RECURSIVE StripLeft(_)
StripLeft(w) == IF w # <<>> /\ Head(w) \in StripChars THEN StripLeft(Tail(w)) ELSE w
RECURSIVE StripRight(_)
StripRight(w) ==
    IF w # <<>> /\ w[Len(w)] \in StripChars THEN StripRight(SubSeq(w, 1, Len(w) - 1)) ELSE w
Strip(w) == StripRight(StripLeft(w))

Vowels == {"a", "e", "i", "o", "u"}
\* the words the second pattern of is_nonsensical_answer lets pass
ShortRealWords ==
    { <<"i">>, <<"a", "m">>, <<"m", "y">>, <<"i", "s">>, <<"i", "t">>, <<"t", "o">>,
      <<"i", "n">>, <<"o", "n">>, <<"a", "t">>, <<"m", "e">>, <<"w", "e">>, <<"h", "e">>,
      <<"s", "h", "e">>, <<"t", "h", "e">>, <<"a", "n", "d">>, <<"b", "u", "t">>,
      <<"f", "o", "r">>, <<"y", "o", "u">>, <<"c", "a", "n">>, <<"w", "a", "s">>,
      <<"a", "r", "e">>, <<"y", "e", "s">>, <<"n", "o">> }

\* nonsense_patterns[0]: len(w) > 2 and not any(c in 'aeiou' for c in w.lower())
NoVowelPattern(w) == Len(w) > 2 /\ ~(\E i \in DOMAIN w : LowerChar(w[i]) \in Vowels)
\* nonsense_patterns[1]: len(w) <= 3 and w.lower() not in [...]
ShortUnknownPattern(w) == Len(w) <= 3 /\ LowerText(w) \notin ShortRealWords

\* clean_word = ''.join(c for c in word if c.isalpha())
CleanWord(w) == SelectSeq(w, IsAlpha)

\* if clean_word and any(pattern(clean_word) for pattern in nonsense_patterns)
IsNonsenseWord(w) ==
    LET clean == CleanWord(w) IN
    clean # <<>> /\ (NoVowelPattern(clean) \/ ShortUnknownPattern(clean))

\* is_nonsensical_answer(answer_text), on words = answer_text.split()
is_nonsensical_answer(words) ==
    IF Len(words) = 0 THEN TRUE
    ELSE 2 * Cardinality({i \in DOMAIN words : IsNonsenseWord(words[i])}) > Len(words)

\* the phrase and word lists of detect_question_type
IntroductionPhrases ==
    { <<"i", "n", "t", "r", "o", "d", "u", "c", "e", " ", "y", "o", "u", "r", "s", "e", "l", "f">>,
      <<"a", "b", "o", "u", "t", " ", "y", "o", "u", "r", "s", "e", "l", "f">>,
      <<"t", "e", "l", "l", " ", "m", "e", " ", "a", "b", "o", "u", "t", " ", "y", "o", "u", "r", " ", "b", "a", "c", "k", "g", "r", "o", "u", "n", "d">>,
      <<"w", "e", "l", "c", "o", "m", "e", " ", "t", "o">>,
      <<"c", "o", "u", "l", "d", " ", "y", "o", "u", " ", "p", "l", "e", "a", "s", "e", " ", "i", "n", "t", "r", "o", "d", "u", "c", "e">> }
ExperienceWords ==
    { <<"e", "x", "p", "e", "r", "i", "e", "n", "c", "e">>, <<"w", "o", "r", "k", "e", "d">>,
      <<"j", "o", "b">>, <<"r", "o", "l", "e">>, <<"p", "o", "s", "i", "t", "i", "o", "n">> }
TechnicalWords ==
    { <<"t", "e", "c", "h", "n", "i", "c", "a", "l">>,
      <<"t", "e", "c", "h", "n", "o", "l", "o", "g", "y">>,
      <<"p", "r", "o", "g", "r", "a", "m", "m", "i", "n", "g">>, <<"c", "o", "d", "e">>,
      <<"s", "o", "f", "t", "w", "a", "r", "e">> }
BehavioralWords ==
    { <<"c", "h", "a", "l", "l", "e", "n", "g", "e">>,
      <<"d", "i", "f", "f", "i", "c", "u", "l", "t">>, <<"p", "r", "o", "b", "l", "e", "m">>,
      <<"c", "o", "n", "f", "l", "i", "c", "t">> }
SelfAssessmentWords ==
    { <<"s", "t", "r", "e", "n", "g", "t", "h">>, <<"w", "e", "a", "k", "n", "e", "s", "s">>,
      <<"s", "k", "i", "l", "l", "s">> }

\* detect_question_type(question_text), on question_text.lower()
detect_question_type(question_lower) ==
    IF ContainsAny(question_lower, IntroductionPhrases) THEN "introduction"
    ELSE IF ContainsAny(question_lower, ExperienceWords) THEN "experience"
    ELSE IF ContainsAny(question_lower, TechnicalWords) THEN "technical"
    ELSE IF ContainsAny(question_lower, BehavioralWords) THEN "behavioral"
    ELSE IF ContainsAny(question_lower, SelfAssessmentWords) THEN "self_assessment"
    ELSE "general"

\* type_keywords of check_content_match ('general' has the empty list)
TypeKeywords ==
    [
      introduction |->
          { <<"i", " ", "a", "m">>, <<"m", "y", " ", "n", "a", "m", "e">>,
            <<"b", "a", "c", "k", "g", "r", "o", "u", "n", "d">>,
            <<"e", "x", "p", "e", "r", "i", "e", "n", "c", "e">>,
            <<"e", "d", "u", "c", "a", "t", "i", "o", "n">>, <<"s", "k", "i", "l", "l", "s">>,
            <<"c", "a", "r", "e", "e", "r">>, <<"c", "u", "r", "r", "e", "n", "t", "l", "y">>,
            <<"s", "t", "u", "d", "y", "i", "n", "g">>,
            <<"p", "u", "r", "s", "u", "i", "n", "g">>, <<"m", "a", "s", "t", "e", "r">>,
            <<"d", "e", "g", "r", "e", "e">>, <<"s", "t", "u", "d", "e", "n", "t">> },
      experience |->
          { <<"w", "o", "r", "k", "e", "d">>, <<"j", "o", "b">>, <<"r", "o", "l", "e">>,
            <<"c", "o", "m", "p", "a", "n", "y">>, <<"p", "r", "o", "j", "e", "c", "t">>,
            <<"t", "e", "a", "m">>,
            <<"r", "e", "s", "p", "o", "n", "s", "i", "b", "i", "l", "i", "t", "y">> },
      technical |->
          { <<"t", "e", "c", "h", "n", "o", "l", "o", "g", "y">>,
            <<"p", "r", "o", "g", "r", "a", "m", "m", "i", "n", "g">>, <<"c", "o", "d", "e">>,
            <<"s", "o", "f", "t", "w", "a", "r", "e">>, <<"s", "y", "s", "t", "e", "m">>,
            <<"d", "e", "v", "e", "l", "o", "p", "m", "e", "n", "t">> },
      behavioral |->
          { <<"s", "i", "t", "u", "a", "t", "i", "o", "n">>,
            <<"c", "h", "a", "l", "l", "e", "n", "g", "e">>,
            <<"p", "r", "o", "b", "l", "e", "m">>, <<"s", "o", "l", "u", "t", "i", "o", "n">>,
            <<"r", "e", "s", "u", "l", "t">>, <<"l", "e", "a", "r", "n", "e", "d">> },
      self_assessment |->
          { <<"s", "t", "r", "e", "n", "g", "t", "h">>, <<"g", "o", "o", "d", " ", "a", "t">>,
            <<"w", "e", "a", "k", "n", "e", "s", "s">>, <<"i", "m", "p", "r", "o", "v", "e">>,
            <<"s", "k", "i", "l", "l">> },
      general |-> {} ]

\* check_content_match(answer_text, question_type)
check_content_match(words, answer_lower, question_type) ==
    IF TypeKeywords[question_type] = {} THEN TRUE
    ELSE IF question_type = "introduction" THEN Len(words) >= 3
    ELSE ContainsAny(answer_lower, TypeKeywords[question_type])

\* personal_indicators of analyze_content_relevance
PersonalIndicators ==
    { <<"i", " ", "a", "m">>, <<"m", "y", " ", "n", "a", "m", "e">>,
      <<"n", "a", "m", "e", " ", "i", "s">>, <<"c", "u", "r", "r", "e", "n", "t", "l", "y">>,
      <<"s", "t", "u", "d", "y", "i", "n", "g">>, <<"p", "u", "r", "s", "u", "i", "n", "g">>,
      <<"b", "a", "c", "k", "g", "r", "o", "u", "n", "d">>,
      <<"e", "x", "p", "e", "r", "i", "e", "n", "c", "e">>,
      <<"e", "d", "u", "c", "a", "t", "i", "o", "n">>, <<"s", "t", "u", "d", "e", "n", "t">>,
      <<"d", "e", "g", "r", "e", "e">>, <<"m", "a", "s", "t", "e", "r">>,
      <<"m", "a", "s", "t", "e", "r", "s">>, <<"b", "a", "c", "h", "e", "l", "o", "r">>,
      <<"u", "n", "i", "v", "e", "r", "s", "i", "t", "y">>,
      <<"c", "o", "l", "l", "e", "g", "e">>, <<"w", "o", "r", "k">>,
      <<"w", "o", "r", "k", "i", "n", "g">>,
      <<"e", "n", "t", "h", "u", "s", "i", "a", "s", "t", "i", "c">>,
      <<"p", "e", "r", "s", "o", "n">>, <<"c", "o", "m", "p", "u", "t", "e", "r">>,
      <<"s", "c", "i", "e", "n", "c", "e">>, <<"c", "s">>,
      <<"p", "a", "s", "s", "i", "o", "n", "a", "t", "e">>,
      <<"i", "n", "t", "e", "r", "e", "s", "t", "e", "d">>,
      <<"l", "e", "a", "r", "n", "i", "n", "g">> }

\* negative_phrases
NegativePhrases ==
    { <<"n", "o", " ", "e", "x", "p", "e", "r", "i", "e", "n", "c", "e">>,
      <<"n", "o", " ", "p", "r", "i", "o", "r", " ", "e", "x", "p", "e", "r", "i", "e", "n", "c", "e">>,
      <<"n", "e", "v", "e", "r", " ", "w", "o", "r", "k", "e", "d">>,
      <<"n", "e", "v", "e", "r", " ", "d", "o", "n", "e">>,
      <<"n", "o", "t", " ", "f", "a", "m", "i", "l", "i", "a", "r">>,
      <<"d", "o", "n", "'", "t", " ", "h", "a", "v", "e", " ", "e", "x", "p", "e", "r", "i", "e", "n", "c", "e">>,
      <<"h", "a", "v", "e", "n", "'", "t", " ", "w", "o", "r", "k", "e", "d">>,
      <<"n", "o", " ", "k", "n", "o", "w", "l", "e", "d", "g", "e">>,
      <<"n", "o", "t", " ", "e", "x", "p", "e", "r", "i", "e", "n", "c", "e", "d">>,
      <<"n", "e", "v", "e", "r", " ", "u", "s", "e", "d">>,
      <<"d", "o", "n", "'", "t", " ", "k", "n", "o", "w">>,
      <<"n", "o", "t", " ", "s", "u", "r", "e">>, <<"n", "o", " ", "i", "d", "e", "a">> }

\* the words that make a question one about experience
ExperienceQuestionWords ==
    { <<"e", "x", "p", "e", "r", "i", "e", "n", "c", "e">>, <<"w", "o", "r", "k", "e", "d">>,
      <<"p", "r", "o", "j", "e", "c", "t">>, <<"s", "o", "l", "v", "e", "d">>,
      <<"i", "m", "p", "l", "e", "m", "e", "n", "t", "e", "d">>, <<"u", "s", "e", "d">> }

\* common_words
CommonWords ==
    { <<"t", "h", "e">>, <<"a">>, <<"a", "n">>, <<"a", "n", "d">>, <<"o", "r">>,
      <<"b", "u", "t">>, <<"i", "n">>, <<"o", "n">>, <<"a", "t">>, <<"t", "o">>,
      <<"f", "o", "r">>, <<"o", "f">>, <<"w", "i", "t", "h">>, <<"b", "y">>, <<"h", "o", "w">>,
      <<"w", "h", "a", "t">>, <<"w", "h", "e", "n">>, <<"w", "h", "e", "r", "e">>,
      <<"w", "h", "y">>, <<"w", "h", "o">>, <<"t", "e", "l", "l">>, <<"m", "e">>,
      <<"a", "b", "o", "u", "t">>, <<"d", "e", "s", "c", "r", "i", "b", "e">>,
      <<"e", "x", "p", "l", "a", "i", "n">>, <<"c", "a", "n">>, <<"y", "o", "u">>,
      <<"y", "o", "u", "r">>, <<"d", "o">>, <<"d", "i", "d">>, <<"h", "a", "v", "e">>,
      <<"h", "a", "s">>, <<"i", "s">>, <<"a", "r", "e">>, <<"w", "a", "s">>,
      <<"w", "e", "r", "e">> }

\* question_words = [word.strip('.,!?') for word in question_lower.split()
\*                   if word.strip('.,!?') not in common_words and len(word) > 2]
IsQuestionWord(w) == Strip(w) \notin CommonWords /\ Len(w) > 2
QuestionWords(question_words_lower) ==
    LET kept == SelectSeq(question_words_lower, IsQuestionWord)
    IN [i \in DOMAIN kept |-> Strip(kept[i])]

RelevanceResult(relevant, tenths, type, match) ==
    [op |-> "relevance", is_relevant |-> relevant, relevance_tenths |-> tenths,
     question_type |-> type, content_match |-> match]

\* analyze_content_relevance(answer_text, question_text), on the split texts
analyze_content_relevance(answer_words, question_words) ==
    LET answer_lower == LowerText(JoinWords(answer_words))
        question_lower == LowerText(JoinWords(question_words))
        question_type == detect_question_type(question_lower)
        word_count == Len(answer_words)
    IN
    IF is_nonsensical_answer(answer_words)
    THEN RelevanceResult(FALSE, 0, "nonsensical", FALSE)
    ELSE IF question_type = "introduction"
    THEN IF ContainsAny(answer_lower, PersonalIndicators) /\ word_count >= 3
         THEN RelevanceResult(TRUE, 1000, question_type, TRUE)
         ELSE RelevanceResult(FALSE, 0, question_type, FALSE)
    ELSE IF /\ ContainsAny(answer_lower, NegativePhrases)
            /\ ContainsAny(question_lower, ExperienceQuestionWords)
    THEN RelevanceResult(FALSE, 0, question_type, FALSE)
    ELSE
        LET qwords == QuestionWords([i \in DOMAIN question_words |->
                                        LowerText(question_words[i])])
            relevant_keywords ==
                Cardinality({i \in DOMAIN qwords : Contains(answer_lower, qwords[i])})
            content_match == check_content_match(answer_words, answer_lower, question_type)
            \* relevance_percentage >= 15, with relevance_percentage = 0 for no question word
            enough == qwords # <<>> /\ 100 * relevant_keywords >= 15 * Len(qwords)
        IN RelevanceResult((enough /\ content_match) \/ word_count > RelevantWordCount,
                           IF qwords = <<>> THEN 0
                           ELSE RoundTenths(100 * relevant_keywords, Len(qwords)),
                           question_type, content_match)

\* The questions of the model: questions 1 to 3 of the speech interview.
RelevanceQuestions ==
    << << <<"T", "e", "l", "l">>, <<"m", "e">>, <<"a", "b", "o", "u", "t">>,
          <<"y", "o", "u", "r", "s", "e", "l", "f">>, <<"a", "n", "d">>, <<"y", "o", "u", "r">>,
          <<"t", "e", "c", "h", "n", "i", "c", "a", "l">>,
          <<"b", "a", "c", "k", "g", "r", "o", "u", "n", "d", ".">> >>,
       << <<"D", "e", "s", "c", "r", "i", "b", "e">>, <<"a">>,
          <<"c", "h", "a", "l", "l", "e", "n", "g", "i", "n", "g">>,
          <<"p", "r", "o", "j", "e", "c", "t">>, <<"y", "o", "u">>,
          <<"w", "o", "r", "k", "e", "d">>, <<"o", "n">>,
          <<"r", "e", "c", "e", "n", "t", "l", "y", ".">> >>,
       << <<"H", "o", "w">>, <<"d", "o">>, <<"y", "o", "u">>, <<"h", "a", "n", "d", "l", "e">>,
          <<"w", "o", "r", "k", "i", "n", "g">>, <<"u", "n", "d", "e", "r">>,
          <<"p", "r", "e", "s", "s", "u", "r", "e", "?">> >> >>

\* The words the answers of the model are made of.
AnswerVocabulary ==
    { <<"a", "s", "d", "k", "j">>, <<"q", "p", "w", "o">>, <<"k", "j", "f">>, <<"x", "z">>,
      <<"I">>, <<"a", "m">>, <<"s", "t", "u", "d", "e", "n", "t">>,
      <<"p", "r", "o", "j", "e", "c", "t", ".">>, <<"!", "?">> }

\* The gibberish answer "asdkj qpwo".
GibberishAnswer == << <<"a", "s", "d", "k", "j">>, <<"q", "p", "w", "o">> >>

\* The calls of the model: an answer of up to MaxAnswerWords words, given as it is or
\* repeated until it has more than 30 words, and one of the questions.
RelevanceInputs ==
    [answer : SeqsUpTo(AnswerVocabulary, MaxAnswerWords),
     repeat : {1, LongRepeat},
     question : DOMAIN RelevanceQuestions]

AnswerWordsOf(in) == Repeat(in.answer, in.repeat)

AnalyzeRelevance ==
    /\ rel_result = NoResponse
    /\ rel_result' = analyze_content_relevance(AnswerWordsOf(rel_input),
                                               RelevanceQuestions[rel_input.question])
    /\ UNCHANGED <<rel_input, kvVars, sessionVars, analyzeVars, questionVars, storeVars,
                   transcribeVars, completeVars>>

NextRelevance == AnalyzeRelevance

----------------------------------------------------------------------------
(* The specifications.  Each starts the part it explores in the states that part can
   be in before its first request and keeps the other parts at rest. *)

NoSessions == [s \in SessionIds |-> NoSession]
NoRequests == [r \in RequestIds |-> IdleRequest]
NoProvider == [kind |-> "exception", types |-> <<>>, found |-> {}]
NoTranscribeInput ==
    [filename |-> "none", save |-> "ok", file_size |-> MinAudioBytes, available |-> FALSE,
     upload |-> "ok", job |-> [kind |-> "raise", final |-> "COMPLETED", ready_at |-> 1]]
NoCompleteRequest == [session_id |-> 1, answers |-> <<>>]
NoRelevanceInput == [answer |-> <<>>, repeat |-> 1, question |-> 1]
NothingSaved == [s \in SessionIds |-> NoText]

InitSession ==
    /\ resume_text \in {"", "resume"}
    /\ speech_session = NoSessions
    /\ response = NoResponse
    /\ twin_response = NoResponse
    /\ analysis_cache = <<>>
    /\ ai_available = FALSE
    /\ analysis_store = {}
    /\ requests = NoRequests
    /\ last_done = 0
    /\ provider = NoProvider
    /\ gq_response = NoResponse
    /\ s3_objects = [s \in SessionIds |-> "unavailable"]
    /\ local_files = [s \in SessionIds |-> "absent"]
    /\ legacy_files = [i \in 1..NumLegacyPaths |-> "absent"]
    /\ store_response = NoResponse
    /\ tr_input = NoTranscribeInput
    /\ tr_result = NoResponse
    /\ ci_request = NoCompleteRequest
    /\ ci_response = NoResponse
    /\ final_reports = {}
    /\ rel_input = NoRelevanceInput
    /\ rel_result = NoResponse
    /\ kv_s3 = NothingSaved
    /\ kv_local = NothingSaved
    /\ kv_response = NoResponse

InitAnalyze ==
    /\ analysis_cache \in {PrefilledCache(0), PrefilledCache(MAX_CACHE_SIZE)}
    /\ ai_available \in BOOLEAN
    /\ analysis_store = {}
    /\ requests = NoRequests
    /\ last_done = 0
    /\ resume_text = ""
    /\ speech_session = NoSessions
    /\ response = NoResponse
    /\ twin_response = NoResponse
    /\ provider = NoProvider
    /\ gq_response = NoResponse
    /\ s3_objects = [s \in SessionIds |-> "unavailable"]
    /\ local_files = [s \in SessionIds |-> "absent"]
    /\ legacy_files = [i \in 1..NumLegacyPaths |-> "absent"]
    /\ store_response = NoResponse
    /\ tr_input = NoTranscribeInput
    /\ tr_result = NoResponse
    /\ ci_request = NoCompleteRequest
    /\ ci_response = NoResponse
    /\ final_reports = {}
    /\ rel_input = NoRelevanceInput
    /\ rel_result = NoResponse
    /\ kv_s3 = NothingSaved
    /\ kv_local = NothingSaved
    /\ kv_response = NoResponse

InitQuestions ==
    /\ provider \in ProviderOutcomes
    /\ gq_response = NoResponse
    /\ resume_text \in {"", "resume"}
    /\ speech_session = NoSessions
    /\ response = NoResponse
    /\ twin_response = NoResponse
    /\ analysis_cache = <<>>
    /\ ai_available = FALSE
    /\ analysis_store = {}
    /\ requests = NoRequests
    /\ last_done = 0
    /\ s3_objects = [s \in SessionIds |-> "unavailable"]
    /\ local_files = [s \in SessionIds |-> "absent"]
    /\ legacy_files = [i \in 1..NumLegacyPaths |-> "absent"]
    /\ store_response = NoResponse
    /\ tr_input = NoTranscribeInput
    /\ tr_result = NoResponse
    /\ ci_request = NoCompleteRequest
    /\ ci_response = NoResponse
    /\ final_reports = {}
    /\ rel_input = NoRelevanceInput
    /\ rel_result = NoResponse
    /\ kv_s3 = NothingSaved
    /\ kv_local = NothingSaved
    /\ kv_response = NoResponse

InitStore ==
    /\ s3_objects \in [SessionIds -> S3Kinds]
    /\ local_files \in [SessionIds -> FileKinds]
    /\ legacy_files \in [1..NumLegacyPaths -> FileKinds]
    /\ store_response = NoResponse
    /\ tr_input = NoTranscribeInput
    /\ tr_result = NoResponse
    /\ ci_request = NoCompleteRequest
    /\ ci_response = NoResponse
    /\ final_reports = {}
    /\ resume_text = ""
    /\ speech_session = NoSessions
    /\ response = NoResponse
    /\ twin_response = NoResponse
    /\ analysis_cache = <<>>
    /\ ai_available = FALSE
    /\ analysis_store = {}
    /\ requests = NoRequests
    /\ last_done = 0
    /\ provider = NoProvider
    /\ gq_response = NoResponse
    /\ rel_input = NoRelevanceInput
    /\ rel_result = NoResponse
    /\ kv_s3 = NothingSaved
    /\ kv_local = NothingSaved
    /\ kv_response = NoResponse

InitTranscribe ==
    /\ tr_input \in TranscribeInputs
    /\ tr_result = NoResponse
    /\ ci_request = NoCompleteRequest
    /\ ci_response = NoResponse
    /\ final_reports = {}
    /\ resume_text = ""
    /\ speech_session = NoSessions
    /\ response = NoResponse
    /\ twin_response = NoResponse
    /\ analysis_cache = <<>>
    /\ ai_available = FALSE
    /\ analysis_store = {}
    /\ requests = NoRequests
    /\ last_done = 0
    /\ provider = NoProvider
    /\ gq_response = NoResponse
    /\ s3_objects = [s \in SessionIds |-> "unavailable"]
    /\ local_files = [s \in SessionIds |-> "absent"]
    /\ legacy_files = [i \in 1..NumLegacyPaths |-> "absent"]
    /\ store_response = NoResponse
    /\ rel_input = NoRelevanceInput
    /\ rel_result = NoResponse
    /\ kv_s3 = NothingSaved
    /\ kv_local = NothingSaved
    /\ kv_response = NoResponse

InitComplete ==
    /\ ci_request \in CompleteRequests
    /\ ci_response = NoResponse
    /\ final_reports \in {{}, SessionIds}
    /\ tr_input = NoTranscribeInput
    /\ tr_result = NoResponse
    /\ resume_text = ""
    /\ speech_session = NoSessions
    /\ response = NoResponse
    /\ twin_response = NoResponse
    /\ analysis_cache = <<>>
    /\ ai_available = FALSE
    /\ analysis_store = {}
    /\ requests = NoRequests
    /\ last_done = 0
    /\ provider = NoProvider
    /\ gq_response = NoResponse
    /\ s3_objects = [s \in SessionIds |-> "unavailable"]
    /\ local_files = [s \in SessionIds |-> "absent"]
    /\ legacy_files = [i \in 1..NumLegacyPaths |-> "absent"]
    /\ store_response = NoResponse
    /\ rel_input = NoRelevanceInput
    /\ rel_result = NoResponse
    /\ kv_s3 = NothingSaved
    /\ kv_local = NothingSaved
    /\ kv_response = NoResponse

InitRelevance ==
    /\ rel_input \in RelevanceInputs
    /\ rel_result = NoResponse
    /\ kv_s3 = NothingSaved
    /\ kv_local = NothingSaved
    /\ kv_response = NoResponse
    /\ resume_text = ""
    /\ speech_session = NoSessions
    /\ response = NoResponse
    /\ twin_response = NoResponse
    /\ analysis_cache = <<>>
    /\ ai_available = FALSE
    /\ analysis_store = {}
    /\ requests = NoRequests
    /\ last_done = 0
    /\ provider = NoProvider
    /\ gq_response = NoResponse
    /\ s3_objects = [s \in SessionIds |-> "unavailable"]
    /\ local_files = [s \in SessionIds |-> "absent"]
    /\ legacy_files = [i \in 1..NumLegacyPaths |-> "absent"]
    /\ store_response = NoResponse
    /\ tr_input = NoTranscribeInput
    /\ tr_result = NoResponse
    /\ ci_request = NoCompleteRequest
    /\ ci_response = NoResponse
    /\ final_reports = {}

\* Before generate-questions: the resume was extracted or not, nothing is stored
\* under the key of a session, the legacy files are whatever earlier runs left.
InitGenerateSummary ==
    /\ provider \in ProviderOutcomes
    /\ gq_response = NoResponse
    /\ resume_text \in {"", "resume"}
    /\ s3_objects = [s \in SessionIds |-> "unavailable"]
    /\ local_files = [s \in SessionIds |-> "absent"]
    /\ legacy_files \in [1..NumLegacyPaths -> FileKinds]
    /\ store_response = NoResponse
    /\ speech_session = NoSessions
    /\ response = NoResponse
    /\ twin_response = NoResponse
    /\ analysis_cache = <<>>
    /\ ai_available = FALSE
    /\ analysis_store = {}
    /\ requests = NoRequests
    /\ last_done = 0
    /\ tr_input = NoTranscribeInput
    /\ tr_result = NoResponse
    /\ ci_request = NoCompleteRequest
    /\ ci_response = NoResponse
    /\ final_reports = {}
    /\ rel_input = NoRelevanceInput
    /\ rel_result = NoResponse
    /\ kv_s3 = NothingSaved
    /\ kv_local = NothingSaved
    /\ kv_response = NoResponse

\* Before the first Save: no object and no local file for any session; the legacy
\* files are all absent or all hold data.
InitSaveLoad ==
    /\ kv_s3 = NothingSaved
    /\ kv_local = NothingSaved
    /\ kv_response = NoResponse
    /\ legacy_files \in {[i \in 1..NumLegacyPaths |-> "absent"],
                         [i \in 1..NumLegacyPaths |-> "data"]}
    /\ s3_objects = [s \in SessionIds |-> "unavailable"]
    /\ local_files = [s \in SessionIds |-> "absent"]
    /\ store_response = NoResponse
    /\ resume_text = ""
    /\ speech_session = NoSessions
    /\ response = NoResponse
    /\ twin_response = NoResponse
    /\ analysis_cache = <<>>
    /\ ai_available = FALSE
    /\ analysis_store = {}
    /\ requests = NoRequests
    /\ last_done = 0
    /\ provider = NoProvider
    /\ gq_response = NoResponse
    /\ tr_input = NoTranscribeInput
    /\ tr_result = NoResponse
    /\ ci_request = NoCompleteRequest
    /\ ci_response = NoResponse
    /\ final_reports = {}
    /\ rel_input = NoRelevanceInput
    /\ rel_result = NoResponse

SpecSession == InitSession /\ [][NextSession]_vars

SpecAnalyze == InitAnalyze /\ [][NextAnalyze]_vars

\* analyze-answer with the scheduling the event loop provides: a pending wait_for
\* timer fires.  Nothing is assumed about the cloud service answering.
SpecAnalyzeLive ==
    InitAnalyze /\ [][NextAnalyze]_vars /\ \A r \in RequestIds : WF_vars(CloudWaitTimesOut(r))

SpecQuestions == InitQuestions /\ [][NextQuestions]_vars

SpecStore == InitStore /\ [][NextStore]_vars

SpecTranscribe == InitTranscribe /\ [][NextTranscribe]_vars

SpecComplete == InitComplete /\ [][NextComplete]_vars

SpecRelevance == InitRelevance /\ [][NextRelevance]_vars

SpecGenerateSummary == InitGenerateSummary /\ [][NextGenerateSummary]_vars

SpecSaveLoad == InitSaveLoad /\ [][NextSaveLoad]_vars

----------------------------------------------------------------------------
(* Properties of the speech-interview session machine (SpecSession) *)

\* The step is a SubmitAnswer request for session s: every request sets response to
\* its response, and the only other step is the one that changes the resume file.
IsSubmitStep(s) ==
    response'.op = "submit" /\ response'.session_id = s /\ resume_text' = resume_text

\* No file write of the request failed.
WritesSucceeded ==
    response'.detail \notin {"session write failed", "analysis write failed"}

\* C1: a SubmitAnswer whose question_id differs from the id of the question at the
\* session's current index fails with the mismatch error, and the persisted session
\* (index, history, statistics) is what it was before the call.
C1_MismatchRejected ==
    [][\A s \in SessionIds :
         (/\ IsSubmitStep(s)
          /\ speech_session[s] # NoSession
          /\ response'.question_id # CurrentQuestionId(speech_session[s]))
         => (/\ response'.status # 200
             /\ response'.detail = "Question ID mismatch"
             /\ speech_session' = speech_session)]_vars

\* C1 witness: a submission for another question than the current one was rejected
\* on a stored session.
C1_Witness ==
    /\ response.op = "submit"
    /\ response.detail = "Question ID mismatch"
    /\ response.status # 200
    /\ speech_session[response.session_id] # NoSession
    /\ response.question_id # CurrentQuestionId(speech_session[response.session_id])

\* C2: at index i, a SubmitAnswer with the id of question i (file writes succeeding)
\* succeeds and appends exactly one Turn; with a next question the index becomes i+1
\* and question i+1 is returned with is_complete false; at the last index the index
\* stays and is_complete is true with no next question.
C2_MatchingSubmitAdvances ==
    [][\A s \in SessionIds :
         (/\ IsSubmitStep(s)
          /\ speech_session[s] # NoSession
          /\ response'.question_id = CurrentQuestionId(speech_session[s])
          /\ WritesSucceeded)
         => LET sd == speech_session[s]
                i == sd.current_question_index
                total == Len(sd.questions)
            IN /\ response'.status = 200
               /\ Len(speech_session'[s].question_history) = Len(sd.question_history) + 1
               /\ SubSeq(speech_session'[s].question_history, 1, Len(sd.question_history))
                      = sd.question_history
               /\ i + 1 < total =>
                      /\ speech_session'[s].current_question_index = i + 1
                      /\ response'.next_question = sd.questions[i + 2].id
                      /\ ~response'.is_complete
               /\ i + 1 >= total =>
                      /\ speech_session'[s].current_question_index = i
                      /\ response'.next_question = 0
                      /\ response'.is_complete]_vars

\* The question ids that have a recorded Turn in a session record.
AnsweredIds(sd) == {sd.question_history[k].question_id : k \in DOMAIN sd.question_history}

C4_AudioFailureIsAbsorbed ==
    [][\A s \in SessionIds :
         (/\ IsSubmitStep(s)
          /\ response'.audio \in {"none", "raise"}
          /\ WritesSucceeded)
         => (/\ response'.status = 200
             /\ Len(speech_session'[s].question_history)
                    = Len(speech_session[s].question_history) + 1
             /\ speech_session'[s].current_question_index
                    = speech_session[s].current_question_index + 1)]_vars

\* C5: the persisted session_stats.average_score is the arithmetic mean of the
\* overall_score of all Turns of question_history (sum / count), and a successful
\* SubmitAnswer reports that value.
C5_AverageIsMeanOfHistory ==
    /\ \A s \in SessionIds :
         LET sd == speech_session[s] IN
         (sd # NoSession /\ sd.question_history # <<>>) =>
             sd.session_stats.average_score.num * Len(sd.question_history)
                 = sd.session_stats.average_score.den * SumSeq(Scores(sd.question_history))
    /\ (response.op = "submit" /\ response.status = 200) =>
           response.average_score
               = speech_session[response.session_id].session_stats.average_score

\* C5 witness: a SubmitAnswer succeeded on a session that now holds several Turns.
C5_Witness ==
    /\ response.op = "submit"
    /\ response.status = 200
    /\ Len(speech_session[response.session_id].question_history) >= 2

\* Two SubmitAnswer requests for the same session and question id arrived together
\* while that id was current: the handler has no suspension point, so one ran right
\* after the other; neither met a failing file write.
ConcurrentSubmits ==
    /\ twin_response.op = "submit"
    /\ response.op = "submit"
    /\ twin_response.session_id = response.session_id
    /\ twin_response.question_id = response.question_id
    /\ twin_response.detail \notin {"No speech session found", "Question ID mismatch"}
    /\ twin_response.detail \notin {"session write failed", "analysis write failed"}
    /\ response.detail \notin {"session write failed", "analysis write failed"}

\* C13: of two concurrent SubmitAnswer calls for the same session carrying the same
\* current question id, exactly one advances the index and records a Turn and the
\* other is rejected as a mismatch.
C13_OneAdvancesOtherRejected ==
    ConcurrentSubmits =>
        /\ twin_response.status = 200
        /\ response.status # 200
        /\ response.detail = "Question ID mismatch"

\* The causes the interface reports as client errors.
ClientErrorDetails ==
    {"No resume data found", "No speech session found", "Question ID mismatch",
     "No interview data found"}

\* C14: a start, submit-answer or get-summary that fails because of missing resume
\* text, an unknown session, a question-id mismatch or missing interview data carries
\* a client-error status (4xx), never a server-error status.
C14_ClientErrorsAre4xx ==
    /\ (response.op # "none" /\ response.detail \in ClientErrorDetails)
       => (response.status >= 400 /\ response.status <= 499)
    /\ (store_response.op = "summary" /\ store_response.detail \in ClientErrorDetails)
       => (store_response.status >= 400 /\ store_response.status <= 499)

\* The step is a Start request for session s.
IsStartStep(s) ==
    response'.op = "start" /\ response'.session_id = s /\ resume_text' = resume_text

\* C15: a Start with empty or missing resume text fails with the missing-resume error
\* and persists no session: no session record appears for the id and an existing one
\* is left as it was.
C15_StartWithoutResumePersistsNothing ==
    [][\A s \in SessionIds :
         (IsStartStep(s) /\ resume_text = "")
         => (/\ response'.status # 200
             /\ response'.detail = "No resume data found"
             /\ speech_session' = speech_session)]_vars

\* C15 witness: a Start without resume text was refused for a session id that holds a
\* session with a recorded position, and that session is still there.
C15_Witness ==
    /\ response.op = "start"
    /\ response.detail = "No resume data found"
    /\ resume_text = ""
    /\ speech_session[response.session_id] # NoSession
    /\ \E s \in SessionIds : speech_session[s] = NoSession

\* s is a prefix of t.
IsPrefix(s, t) == Len(s) <= Len(t) /\ SubSeq(t, 1, Len(s)) = s

C21_IndexWithinQuestions ==
    \A s \in SessionIds :
        speech_session[s] # NoSession =>
            /\ speech_session[s].current_question_index >= 0
            /\ speech_session[s].current_question_index < Len(speech_session[s].questions)
            /\ speech_session[s].current_question_index + 1 \in DOMAIN speech_session[s].questions

\* C21 witness: a session at its last index whose last question has a recorded Turn
\* (the submission at the last index left the index where it was).
C21_Witness ==
    \E s \in SessionIds :
        /\ speech_session[s] # NoSession
        /\ speech_session[s].current_question_index = Len(speech_session[s].questions) - 1
        /\ Len(speech_session[s].questions) \in AnsweredIds(speech_session[s])

\* C23: the performance trend a successful SubmitAnswer returns is "improving"
\* exactly when the history holds at least two Turns and the score of the last Turn
\* is strictly greater than the score of the Turn before it; with one Turn, a tie or
\* a decrease it is "stable".
C23_TrendImprovingIffStrictlyGreater ==
    (response.op = "submit" /\ response.status = 200) =>
        LET h == speech_session[response.session_id].question_history
            n == Len(h)
            rising == n >= 2 /\ h[n].overall_score > h[n - 1].overall_score
        IN /\ response.performance_trend \in {"improving", "stable"}
           /\ response.performance_trend = "improving" <=> rising

\* C23 witness: a SubmitAnswer succeeded with at least two Turns in the history, the
\* last two scores tie, and the trend returned is "stable".
C23_Witness ==
    /\ response.op = "submit"
    /\ response.status = 200
    /\ LET h == speech_session[response.session_id].question_history IN
        /\ Len(h) >= 2
        /\ h[Len(h)].overall_score = h[Len(h) - 1].overall_score
    /\ response.performance_trend = "stable"

----------------------------------------------------------------------------
(* Properties of generate-questions (SpecQuestions) *)

\* C6: whatever the Question Provider did, the questions of a started interview begin
\* with a question of type "introduction" with is_scored = false, and the ids are
\* exactly 1..N in order.
C6_IntroductionFirstAndIdsContiguous ==
    (gq_response # NoResponse /\ gq_response.status = 200) =>
        LET qs == gq_response.questions IN
        /\ qs # <<>>
        /\ qs[1].type = "introduction"
        /\ qs[1].is_scored = "False"
        /\ \A i \in DOMAIN qs : qs[i].id = i

----------------------------------------------------------------------------
(* Properties of analyze-answer and its cache (SpecAnalyze) *)

\* The fingerprint the claims speak of: the question id with the normalized answer text.
Fingerprint(req) == <<req.question_id, AnswerInputs[req.answer].norm>>

\* C7: the analysis cache never holds more than MAX_CACHE_SIZE entries, under any
\* interleaving of the requests at their awaited cloud call.
C7_CacheNeverExceedsCap == Len(analysis_cache) <= MAX_CACHE_SIZE

\* C7 witness: a request inserted into the full cache (the oldest entry was evicted)
\* while another request is suspended at its cloud call.
C7_Witness ==
    /\ Len(analysis_cache) = MAX_CACHE_SIZE
    /\ analysis_cache[1].key # PrefilledCache(1)[1].key
    /\ \E r \in RequestIds : requests[r].pc = "awaiting"
    /\ \E r \in RequestIds :
           requests[r].pc = "done" /\ requests[r].path \in {"short", "fallback", "cloud"}

\* The step is the start of request r right after request p returned, with no request
\* in flight, and r carries the fingerprint of p.
SecondOfSameFingerprint(p, r) ==
    /\ last_done = p
    /\ \A o \in RequestIds : requests[o].pc # "awaiting"
    /\ requests[r].pc = "new"
    /\ requests'[r].pc # "new"
    /\ Fingerprint(requests'[r]) = Fingerprint(requests[p])

\* The second request found the entry: it returns p's result from the cache, without
\* the cloud call, and the cache is as it was.
ServedFromCache(p, r) ==
    /\ requests'[r].pc = "done"
    /\ requests'[r].path = "cache"
    /\ requests'[r].result = requests[p].result
    /\ ~requests'[r].cloud_called
    /\ analysis_cache' = analysis_cache

C9_ScoreWithinRange ==
    /\ \A r \in RequestIds :
         requests[r].pc = "done" =>
             (requests[r].result.score >= 0 /\ requests[r].result.score <= 10)
    /\ \A i \in DOMAIN analysis_cache :
         analysis_cache[i].value.score >= 0 /\ analysis_cache[i].value.score <= 10

\* C9 witness: the cloud returned a score above 10 and the request returned 10.
C9_Witness ==
    \E r \in RequestIds :
        /\ requests[r].pc = "done"
        /\ requests[r].path = "cloud"
        /\ requests[r].cloud_score > 10
        /\ requests[r].result.score = 10

\* C10: analyze-answer never returns an error: every request that returned, returned
\* an Analysis (score, strengths, improvements), whatever failed on its way.
C10_AlwaysReturnsAnalysis ==
    \A r \in RequestIds :
        requests[r].pc = "done" =>
            /\ requests[r].result.status = 200
            /\ DOMAIN requests[r].result = {"status", "score", "strengths", "improvements"}

\* C10 witness: a request whose handler body raised returned the emergency analysis,
\* and a request whose cloud call failed returned as well.
C10_Witness ==
    /\ \E r \in RequestIds : requests[r].pc = "done" /\ requests[r].path = "emergency"
    /\ \E r \in RequestIds :
           requests[r].pc = "done" /\ requests[r].path = "fallback" /\ requests[r].cloud_called

\* The cloud call of a request failed: the generator is unavailable, or the awaited
\* call timed out, raised, or answered with unusable text.
CloudFailureKinds == {"unavailable", "timeout", "raise", "unparseable", "missing_field"}

\* A returned request for an answer of at least 5 trimmed characters that missed the
\* cache and whose cloud call failed or was unavailable.
CloudFailedFor(req) ==
    /\ req.pc = "done"
    /\ AnswerInputs[req.answer].chars >= 5
    /\ req.path # "cache"
    /\ \/ req.cloud_kind \in CloudFailureKinds
       \/ ~ai_available

\* The caller got the heuristic fallback of its answer, as a normal analysis.
GotHeuristicFallback(req) ==
    /\ req.result = simple_fallback_analysis(req.answer)
    /\ req.result.status = 200

C12_AwaitingRequestReturns ==
    \A r \in RequestIds : (requests[r].pc = "awaiting") ~> (requests[r].pc = "done")

\* C12 witness: a request whose cloud wait ended at the timeout returned the fallback.
C12_Witness ==
    \E r \in RequestIds :
        /\ requests[r].pc = "done"
        /\ requests[r].cloud_kind = "timeout"
        /\ requests[r].path = "fallback"
        /\ requests[r].result = simple_fallback_analysis(requests[r].answer)

\* The step is the return of request r from the cache.
IsCacheHitStep(r) ==
    requests[r].pc = "new" /\ requests'[r].pc = "done" /\ requests'[r].path = "cache"

\* The cache entry that serves a request carrying (q, a).
HitEntry(q, a) == analysis_cache[CacheGet(analysis_cache, CacheKey(q, a))]

\* The entry e was computed by the cloud model, whose prompt holds the question text
\* (the short-answer and heuristic analyses do not read the question).
ComputedFromQuestionText(e) ==
    \E p \in RequestIds :
        /\ requests[p].pc = "done"
        /\ requests[p].path = "cloud"
        /\ requests[p].session_id = e.session_id
        /\ CacheKey(requests[p].question_id, requests[p].answer) = e.key
        /\ requests[p].result = e.value

\* C22: whenever analyze-answer returns a cached analysis, in any session, that
\* analysis was computed for the same question text (where the question text entered
\* the computation) and the same normalized answer text as the current request.
C22_CachedAnalysisIsForSameInput ==
    [][\A r \in RequestIds :
         IsCacheHitStep(r) =>
             LET req == requests'[r]
                 e == HitEntry(req.question_id, req.answer)
             IN /\ ComputedFromQuestionText(e) =>
                       QuestionText(e.session_id, req.question_id)
                           = QuestionText(req.session_id, req.question_id)
                /\ AnswerInputs[e.answer].norm = AnswerInputs[req.answer].norm]_vars

\* A returned request whose answer has fewer than 5 trimmed characters.
ShortAnswerReturned(req) == req.pc = "done" /\ AnswerInputs[req.answer].chars < 5

\* The fixed result for such an answer: score 2 with the canned texts.
GotFixedLowScore(req) ==
    /\ req.result.status = 200
    /\ req.result.score = 2
    /\ req.result.strengths = <<"Attempted to answer">>
    /\ req.result.improvements
           = <<"Provide more detailed response", "Elaborate on your thoughts">>

IsReturnStep(r) == requests[r].pc # "done" /\ requests'[r].pc = "done"

\* Request r got to the save of its analysis record and the store did not take it.
SaveFailedFor(r) ==
    /\ requests'[r].path \in {"short", "fallback", "cloud"}
    /\ analysis_store' = analysis_store

\* C28: after analyze-answer returns an analysis for (session s, question q) while
\* the store is working (reading the stored questions did not raise, the save of the
\* record did not fail), the store holds an analysis record for (s, q), so that
\* GetSummary(s) counts q as answered; also when the result came from the cache
\* because another session submitted the same question id and answer earlier.
C28_ReturnedAnalysisIsStored ==
    [][\A r \in RequestIds :
         (IsReturnStep(r) /\ requests'[r].path # "emergency") =>
             \/ <<requests'[r].session_id, requests'[r].question_id>> \in analysis_store'
             \/ SaveFailedFor(r)]_vars

----------------------------------------------------------------------------
(* Properties of the session store and the summary (SpecStore) *)

\* Questions were stored under the key of session s, in the primary store or in the
\* session-keyed local file.
KeyedQuestions(s) == s3_objects[s] = "data" \/ local_files[s] = "data"

\* The last request was a GetSummary that failed with the no-data error and
\* returned no summary.
SummaryFailedNoData ==
    /\ store_response.status # 200
    /\ store_response.detail = "No interview data found"
    /\ store_response.value = EmptyMapping

\* C16: GetSummary for a session for which no questions were ever generated
\* fails with the no-data error and returns no summary, whatever other data exists
\* in the store.
C16_SummaryWithoutQuestionsFails ==
    (store_response.op = "summary" /\ ~KeyedQuestions(store_response.session_id))
    => SummaryFailedNoData

\* The sources of Load(s, "questions") in the order the contract lists them.
NumSources == 2 + NumLegacyPaths
SourceAt(s, k) ==
    IF k = 1 THEN s3_objects[s] ELSE IF k = 2 THEN local_files[s] ELSE legacy_files[k - 2]
OriginAt(s, k) ==
    IF k = 1 THEN <<"s3", s>> ELSE IF k = 2 THEN <<"local", s>> ELSE <<"legacy", k - 2>>

\* C17: Load consults the primary store, then the session-keyed local file, then the
\* legacy paths in their listed order, and returns the first that yields parseable
\* data; when none does (store unavailable, files absent or corrupt) it returns an
\* empty mapping, and it never returns an error.
C17_LoadReturnsFirstParseable ==
    store_response.op = "load" =>
        LET s == store_response.session_id
            good == {k \in 1..NumSources : SourceAt(s, k) \in Parseable}
        IN /\ store_response.status = 200
           /\ good = {} => store_response.value = EmptyMapping
           /\ \A k \in good :
                  (\A j \in good : k <= j)
                  => store_response.value = Loaded(SourceAt(s, k), OriginAt(s, k))

\* C17 witness: with the primary store unavailable and the local file corrupt, Load
\* skipped a corrupt first legacy file and returned the data of the second.
C17_Witness ==
    /\ store_response.op = "load"
    /\ s3_objects[store_response.session_id] = "unavailable"
    /\ local_files[store_response.session_id] = "corrupt"
    /\ legacy_files[1] = "corrupt"
    /\ legacy_files[2] = "data"
    /\ store_response.value = Loaded("data", <<"legacy", 2>>)

----------------------------------------------------------------------------
(* Properties of generate-questions followed by the summary (SpecGenerateSummary) *)

\* The step is a GetSummary for session s.
IsSummaryStep(s) ==
    /\ store_response'.op = "summary"
    /\ store_response'.session_id = s
    /\ gq_response' = gq_response

\* C27: after generate-questions has succeeded for a session id, GetSummary for that
\* session id does not fail with the no-data error and reports total_questions equal
\* to the number of questions that were returned.
C27_SummaryAfterGenerateHasTheQuestions ==
    [][(/\ gq_response # NoResponse
        /\ gq_response.status = 200
        /\ IsSummaryStep(GeneratedSessionId))
       => (/\ store_response'.status = 200
           /\ store_response'.detail # "No interview data found"
           /\ store_response'.total_questions = Len(gq_response.questions))]_vars

----------------------------------------------------------------------------
(* Properties of Save and Load (SpecSaveLoad) *)

\* A Save for session s has returned.  Every Save that returns has written the local
\* file, and nothing else writes it, so the file holds the value of the last one.
SavedBefore(s) == kv_local[s] # NoText
LastSaved(s) == JsonParse(kv_local[s])

\* C29: Save then Load round-trips: after Save(s, kind, v) has returned, Load(s, kind)
\* returns v, for any history of earlier saves under the same key and any
\* availability of the primary store during each save and each load.
C29_LoadReturnsLastSaved ==
    (kv_response.op = "load" /\ SavedBefore(kv_response.session_id))
    => kv_response.value = LastSaved(kv_response.session_id)

----------------------------------------------------------------------------
(* Properties of transcribe-audio (SpecTranscribe) *)

\* The statuses of the Speech Recognition contract.
TranscribeStatuses ==
    {"success", "short_audio", "file_too_large", "invalid_format", "service_unavailable",
     "timeout", "error"}

\* C18: every result of Transcribe has a status that is one of success, short_audio,
\* file_too_large, invalid_format, service_unavailable, timeout, error, on every
\* path, including a failed audio upload and a failed transcription job.
C18_StatusIsOfTheContract ==
    tr_result # NoResponse => tr_result.status \in TranscribeStatuses

----------------------------------------------------------------------------
(* Properties of complete-interview (SpecComplete) *)

\* C19: CompleteInterview with an empty answers list returns a report with overall
\* score 5 and does not fail, also when saving the final report fails.
C19_EmptyAnswersScoreFive ==
    (ci_response # NoResponse /\ ci_request.answers = <<>>)
    => (/\ ci_response.status = 200
        /\ ci_response.overall_score_tenths = 50
        /\ ci_response.detailed_scores = <<>>
        /\ ci_response.strengths # <<>>
        /\ ci_response.improvements # <<>>)

\* C19 witness: the report for an empty answers list was returned although saving it
\* failed (no final report is stored for the session).
C19_Witness ==
    /\ ci_response # NoResponse
    /\ ci_request.answers = <<>>
    /\ ci_response.status = 200
    /\ ci_response.overall_score_tenths = 50
    /\ ci_request.session_id \notin final_reports

----------------------------------------------------------------------------
(* Properties of the content-relevance heuristic (SpecRelevance) *)

\* The call was made with the answer "asdkj qpwo" and a question that is not an
\* introduction question.
GibberishToOtherQuestion ==
    /\ rel_input.answer = GibberishAnswer
    /\ rel_input.repeat = 1
    /\ detect_question_type(LowerText(JoinWords(RelevanceQuestions[rel_input.question])))
           # "introduction"

\* C25: for the answer "asdkj qpwo" to a non-introduction question the nonsensical-
\* answer heuristic flags the answer (is_nonsensical_answer is true, the reported
\* question_type is "nonsensical") and is_relevant is false; and every answer flagged
\* as nonsensical gets is_relevant = false, whatever its length and the question type.
C25_GibberishFlaggedAndIrrelevant ==
    rel_result # NoResponse =>
        /\ GibberishToOtherQuestion =>
               /\ is_nonsensical_answer(AnswerWordsOf(rel_input))
               /\ rel_result.question_type = "nonsensical"
               /\ ~rel_result.is_relevant
        /\ is_nonsensical_answer(AnswerWordsOf(rel_input)) => ~rel_result.is_relevant

====
